---- MODULE Spec2Model ----
(***************************************************************************)
(* Model of the avatar-session client:                                     *)
(*   - fetchWithRetry, the retrying HTTP helper;                           *)
(*   - useAgentConnection, the hook that negotiates one WebRTC session     *)
(*     with the avatar service (connect, speak, the transport's event      *)
(*     listeners, the statistics interval);                                *)
(*   - useRealtimeGPT, the voice bridge (socket, microphone, reconnect     *)
(*     timer).                                                             *)
(* React state is modelled as committed state; a callback reads the state  *)
(* of the render that created it, so every connect() call records what it  *)
(* captured (capPC, capReady, capFluent) and its listeners keep using it.  *)
(***************************************************************************)
EXTENDS Integers, Sequences, FiniteSets, TLC

\* ------------------------------------------------------------- bounds
\* connect() calls of the agent hook in one run
MaxConnects == 2
\* further connect() calls made from the page's reconnect panel
MaxReconnects == 1
\* largest `retries` argument tried on fetchWithRetry
MaxRetries == 3
\* media arrivals (each one raises a transport's cumulative bytesReceived)
MaxBytes == 1
\* icecandidate events
MaxIce == 1
\* 'track' events that carry a video track
MaxTracks == 1
\* speak() calls that reach the network
MaxSpeaks == 1
\* longest text handed to speak()
MaxLen == 2

\* connect() calls of the voice bridge in one run (by the page or by a timer)
MaxGptConnects == 3
\* steps of the clock in one reconnect delay
ClockSteps == 3
\* longest text held in the bridge's pending response buffer
MaxBuf == 2
\* MediaRecorders started in one run
MaxRecorders == 2
\* stopped recorders whose last chunk is outstanding at one time
MaxFlushes == 1
\* FileReader reads of audio chunks in flight at one time
MaxReads == 1
\* 'input_audio_buffer.append' messages sent in one run
MaxAppends == 1

\* ------------------------------------------------- program constants
\* fetchWithRetry's default `retries`
DefaultRetries == 3
\* the delay of the voice bridge's reconnect timer, in ms
ReconnectDelay == 3000
\* the close code of an intentional closure
NormalClosure == 1000
\* 1006, the close code the browser reports for a closure without a close
\* frame (a failed or abandoned connection)
AbnormalClosure == NormalClosure + 6

VARIABLES
  \* fetchWithRetry on its own: the call's inputs and its result
  fOuts, fRetries, fRes,
  \* useAgentConnection: React state
  apiConfig, isStreamReady, isStreamPlaying, isFluent,
  peerConnection, streamId, sessionId,
  \* what the page was told through the three callbacks
  connectionStatus, isConnected, agentName,
  \* the two video elements and their wrapper
  streamVideo, idleVideo, wrapperBg,
  \* one record per connect() call (and the transport it creates)
  att,
  \* the speak POSTs issued
  speakPosts,
  \* useRealtimeGPT: React state, refs, the build's API key
  isGPTConnected, isListening, wsRef, streamRef, apiKey,
  \* mediaRecorderRef (the stream its recorder records, 0 for null) and
  \* currentResponseRef (the pending response buffer)
  mediaRecorderRef, currentResponse,
  \* lastResponse: the text last handed to setLastResponse and onTextReceived
  lastResponse,
  \* the audio path of the recorders: flushing counts the recorders that were
  \* stopped and whose last 'dataavailable' event has yet to fire, reading
  \* the FileReader reads in flight, sent the append messages sent
  audio,
  \* one record per connect() call of the bridge, with the microphone stream
  \* and the socket it creates and the reconnect timer of that socket
  gpt

fetchVars == <<fOuts, fRetries, fRes>>
agentVars == <<apiConfig, isStreamReady, isStreamPlaying, isFluent,
               peerConnection, streamId, sessionId,
               connectionStatus, isConnected, agentName,
               streamVideo, idleVideo, wrapperBg, att, speakPosts>>
gptVars == <<isGPTConnected, isListening, wsRef, streamRef, apiKey,
            mediaRecorderRef, currentResponse, lastResponse, audio, gpt>>
vars == <<fetchVars, agentVars, gptVars>>

\* ------------------------------------------------------ fetchWithRetry
\* What one attempt of fetch() does: a 2xx response, a non-2xx response,
\* or a rejection (network error).
Outcomes == {"ok", "bad", "throw"}

\* The outcomes of the successive attempts, one per request that may be made.
OutcomeSeqs(n) == [1..n -> Outcomes]

\* One attempt inside fetchWithRetry, with `retries` left: retry after the
\* backoff, return the response, or re-raise the error.
fetchStep(outcome, retries) ==
  IF outcome = "throw"
    THEN IF retries > 0 THEN "retry" ELSE "raise"
    ELSE IF outcome # "ok" /\ retries > 0 THEN "retry" ELSE "return"

\* A variant that awaits the recursive call inside the try block, so that the
\* inner call's rejection is caught and retried again by the outer frame.
RECURSIVE fetchWithRetryAwait(_, _, _)
fetchWithRetryAwait(outs, i, retries) ==
  IF i > Len(outs)
    THEN [raised |-> TRUE, kind |-> "throw", at |-> i - 1, requests |-> i - 1]
  ELSE IF outs[i] = "throw"
    THEN IF retries > 0
           THEN fetchWithRetryAwait(outs, i + 1, retries - 1)
           ELSE [raised |-> TRUE, kind |-> "throw", at |-> i, requests |-> i]
    ELSE IF outs[i] # "ok" /\ retries > 0
           THEN LET r == fetchWithRetryAwait(outs, i + 1, retries - 1)
                IN  IF r.raised /\ r.requests < Len(outs)
                      THEN fetchWithRetryAwait(outs, r.requests + 1, retries - 1)
                      ELSE r
           ELSE [raised |-> FALSE, kind |-> outs[i], at |-> i, requests |-> i]

\* A variant that gives up with the response in hand as soon as one exists,
\* and on the last error returns quietly instead of re-raising it.
RECURSIVE fetchWithRetrySwallow(_, _, _)
fetchWithRetrySwallow(outs, i, retries) ==
  IF outs[i] = "throw"
    THEN IF retries > 0
           THEN fetchWithRetrySwallow(outs, i + 1, retries - 1)
           ELSE [raised |-> FALSE, kind |-> "throw", at |-> i, requests |-> i]
    ELSE IF outs[i] # "ok" /\ retries > 0
           THEN fetchWithRetrySwallow(outs, i + 1, retries - 1)
           ELSE [raised |-> FALSE, kind |-> outs[i], at |-> i, requests |-> i]

\* fetchWithRetry(url, options, retries): attempt i of the call has outcome
\* outs[i].  The result says whether the call raised, which attempt's
\* response or error came out (at, kind), and how many requests were issued.
RECURSIVE fetchWithRetry(_, _, _)
fetchWithRetry(outs, i, retries) ==
  LET step == fetchStep(outs[i], retries)
  IN  IF step = "retry"
        THEN fetchWithRetry(outs, i + 1, retries - 1)
        ELSE [raised |-> (step = "raise"), kind |-> outs[i], at |-> i,
              requests |-> i]

NoResult == [raised |-> FALSE, kind |-> "none", at |-> 0, requests |-> 0]

\* -------------------------------------------------- useAgentConnection
Att == 1..(MaxConnects + MaxReconnects)

\* The sum of a function from Att to numbers.
RECURSIVE SumTo(_, _)
SumTo(f, n) == IF n = 0 THEN 0 ELSE f[n] + SumTo(f, n - 1)
Sum(f) == SumTo(f, MaxConnects + MaxReconnects)

\* A connect() call that has not been made yet.
NoAtt == [cpc |-> "idle", res |-> "none", resAgent |-> "none",
          resStream |-> "none", resSdp |-> "none",
          capPC |-> 0, capReady |-> FALSE, capFluent |-> FALSE,
          presenter |-> FALSE, fluentMode |-> FALSE, prepared |-> FALSE,
          conn |-> "none", stopped |-> FALSE, bytes |-> 0,
          monitor |-> "none", lastBytes |-> 0, lastPlayingState |-> FALSE,
          sampled |-> FALSE, sampling |-> FALSE, retries |-> 0,
          nAgent |-> 0, streamTried |-> FALSE, nSdp |-> 0, nIce |-> 0]

\* The characters of a text handed to speak(): white space and anything else.
Chars == {" ", "a"}
Texts == UNION {[1..n -> Chars] : n \in 0..MaxLen}

\* String.prototype.trim(): the text without its leading and trailing white space.
RECURSIVE TrimLeft(_)
TrimLeft(t) == IF t # <<>> /\ Head(t) = " " THEN TrimLeft(Tail(t)) ELSE t
RECURSIVE TrimRight(_)
TrimRight(t) ==
  IF t # <<>> /\ t[Len(t)] = " " THEN TrimRight(SubSeq(t, 1, Len(t) - 1)) ELSE t
\* A variant that sends the text as typed.
TrimNothing(t) == t
Trim(t) == TrimRight(TrimLeft(t))

\* The whole state as one record, so that a handler is a function from state
\* to state and handlers compose in the order the code calls them.
Cur == [apiConfig |-> apiConfig, isStreamReady |-> isStreamReady,
        isStreamPlaying |-> isStreamPlaying, isFluent |-> isFluent,
        peerConnection |-> peerConnection, streamId |-> streamId,
        sessionId |-> sessionId, connectionStatus |-> connectionStatus,
        isConnected |-> isConnected, agentName |-> agentName,
        streamVideo |-> streamVideo, idleVideo |-> idleVideo,
        wrapperBg |-> wrapperBg, att |-> att, speakPosts |-> speakPosts]

Set(s) ==
  /\ apiConfig' = s.apiConfig
  /\ isStreamReady' = s.isStreamReady
  /\ isStreamPlaying' = s.isStreamPlaying
  /\ isFluent' = s.isFluent
  /\ peerConnection' = s.peerConnection
  /\ streamId' = s.streamId
  /\ sessionId' = s.sessionId
  /\ connectionStatus' = s.connectionStatus
  /\ isConnected' = s.isConnected
  /\ agentName' = s.agentName
  /\ streamVideo' = s.streamVideo
  /\ idleVideo' = s.idleVideo
  /\ wrapperBg' = s.wrapperBg
  /\ att' = s.att
  /\ speakPosts' = s.speakPosts

\* updateVideoDisplay(stream, isPlaying) of the render whose isFluent and
\* isStreamReady were capFluent and capReady.  Both video refs are mounted.
updateVideoDisplay(s, capFluent, capReady, stream, isPlaying) ==
  IF ~capFluent
    THEN LET streamOpacity == IF isPlaying /\ capReady THEN 1 ELSE 0
             s1 == [s EXCEPT !.idleVideo.opacity = 1 - streamOpacity,
                             !.streamVideo.opacity = streamOpacity]
         IN  IF isPlaying /\ stream # 0
               THEN [s1 EXCEPT !.streamVideo.srcObject = stream,
                               !.streamVideo.muted = ~capReady]
               ELSE s1
    ELSE LET s1 == [s EXCEPT !.idleVideo.opacity = 0,
                             !.streamVideo.opacity = 1,
                             !.streamVideo.muted = FALSE]
         IN  IF stream # 0
               THEN [s1 EXCEPT !.streamVideo.srcObject = stream]
               ELSE s1

\* stopStream(): stop the tracks of the stream on the live video element and
\* detach it.
stopStream(s) ==
  LET stream == s.streamVideo.srcObject
  IN  IF stream = 0
        THEN s
        ELSE [s EXCEPT !.att[stream].stopped = TRUE,
                       !.streamVideo.srcObject = 0]

\* closeConnection() of the render whose peerConnection was cap.
closeConnection(s, cap) ==
  IF cap = 0
    THEN s
    ELSE [s EXCEPT !.att[cap].conn = "closed",
                   !.peerConnection = 0,
                   !.isStreamReady = FALSE,
                   !.isStreamPlaying = FALSE]

\* A variant of the catch block that only logs the error.
connectFailedSilent(s, a) ==
  [s EXCEPT !.att[a].cpc = "done", !.att[a].res = "failed"]

\* The catch block of connect().
connectFailed(s, a) ==
  [s EXCEPT !.connectionStatus = "Connection failed",
            !.isConnected = FALSE,
            !.att[a].cpc = "done",
            !.att[a].res = "failed"]

\* connect(), from its first line to its first await: the config guard, the
\* status notification, the connected guard, the cleanup, and the agent-info
\* GET being issued.  The call is made from the latest render, so what it
\* captures is the committed state at the call.
connect(s, a) ==
  IF ~s.apiConfig
    THEN [s EXCEPT !.att[a].cpc = "done", !.att[a].res = "noconfig"]
    ELSE LET s1 == [s EXCEPT !.connectionStatus = "Connecting"]
             cap == s.peerConnection
         IN  IF cap # 0 /\ s.att[cap].conn = "connected"
               THEN [s1 EXCEPT !.att[a].cpc = "done", !.att[a].res = "guard"]
               ELSE LET s2 == closeConnection(stopStream(s1), cap)
                    IN  [s2 EXCEPT !.att[a].cpc = "agent",
                                   !.att[a].capPC = cap,
                                   !.att[a].capReady = s.isStreamReady,
                                   !.att[a].capFluent = s.isFluent,
                                   !.att[a].nAgent = 1]

\* A variant without the `if (!resAgent.ok) throw`.
agentResponseUnchecked(s, a, outcome, presenter) ==
  IF outcome = "throw"
    THEN connectFailed([s EXCEPT !.att[a].resAgent = outcome], a)
    ELSE [s EXCEPT !.agentName = a,
                   !.att[a].resAgent = outcome,
                   !.att[a].presenter = presenter,
                   !.att[a].cpc = "stream",
                   !.att[a].retries = DefaultRetries,
                   !.att[a].streamTried = TRUE]

\* connect() resumed by the agent-info response: the ok check, json(), the
\* agent name notification, and the stream-creation POST being issued
\* through fetchWithRetry with its default retries.  "throw" stands for
\* fetch() or json() rejecting.  resAgent, resStream and resSdp keep how the
\* call's three requests ended.  nAgent and nSdp count the requests of their
\* kind; of the stream-creation requests the record keeps that there was one
\* (streamTried) and, while fetchWithRetry runs, the retries it has left.
agentResponse(s, a, outcome, presenter) ==
  IF outcome # "ok"
    THEN connectFailed([s EXCEPT !.att[a].resAgent = outcome], a)
    ELSE [s EXCEPT !.agentName = a,
                   !.att[a].resAgent = outcome,
                   !.att[a].presenter = presenter,
                   !.att[a].cpc = "stream",
                   !.att[a].retries = DefaultRetries,
                   !.att[a].streamTried = TRUE]

\* A variant that leaves the idle visuals for later.
prepIdleVisualsSkipped(s, a, fluent) == s

\* The idle visuals of a talk (non-fluent) avatar: the wrapper's background
\* image and the idle video's source, from this call's agent data.
prepIdleVisuals(s, a, fluent) ==
  IF ~fluent
    THEN [s EXCEPT !.wrapperBg = a, !.idleVideo.src = a,
                   !.att[a].prepared = TRUE]
    ELSE s

\* One attempt of the stream-creation POST settles inside fetchWithRetry.
\* On "retry" the request is issued again after the backoff; otherwise
\* connect() resumes: the ok check, the ids and the mode, the idle visuals,
\* the transport and its listeners, and setRemoteDescription being started.
\* agentData and the retry count are dead from then on.
streamResponse(s, a, outcome, fluent) ==
  LET step == fetchStep(outcome, s.att[a].retries)
      s1 == [s EXCEPT !.att[a].retries = 0, !.att[a].presenter = FALSE,
                      !.att[a].resStream = outcome]
  IN  CASE step = "retry" -> [s EXCEPT !.att[a].retries = @ - 1]
        [] step = "raise" \/ outcome # "ok" -> connectFailed(s1, a)
        [] OTHER ->
             LET s2 == [s1 EXCEPT !.streamId = a, !.sessionId = a,
                                  !.isFluent = fluent,
                                  !.att[a].fluentMode = fluent]
             IN  IF ~fluent /\ ~s.att[a].presenter
                   \* agentData.presenter is undefined: a TypeError
                   THEN connectFailed(s2, a)
                   ELSE LET s3 == prepIdleVisuals(s2, a, fluent)
                        IN  [s3 EXCEPT !.att[a].conn = "new",
                                       !.peerConnection = a,
                                       !.att[a].cpc = "offer"]

\* A variant that posts the answer as soon as the offer is applied.
offerResultEager(s, a, ok) ==
  IF ok
    THEN [s EXCEPT !.att[a].cpc = "sdp", !.att[a].nSdp = 1]
    ELSE connectFailed(s, a)

\* connect() resumed by setRemoteDescription(offer).
offerResult(s, a, ok) ==
  IF ok THEN [s EXCEPT !.att[a].cpc = "answer"] ELSE connectFailed(s, a)

\* connect() resumed by createAnswer() and setLocalDescription(answer); on
\* success the SDP answer POST is issued (a plain fetch).
answerResult(s, a, ok) ==
  IF ok
    THEN [s EXCEPT !.att[a].cpc = "sdp", !.att[a].nSdp = 1]
    ELSE connectFailed(s, a)

\* connect() resumed by the SDP answer POST: the response is not looked at.
sdpResponse(s, a, outcome) ==
  IF outcome = "throw"
    THEN connectFailed([s EXCEPT !.att[a].resSdp = outcome], a)
    ELSE [s EXCEPT !.att[a].cpc = "done", !.att[a].res = "ok",
                   !.att[a].resSdp = outcome]

\* A variant of the track listener that waits for the monitor before it
\* shows a fluent stream.
onTrackGated(s, a, hasVideo) ==
  IF ~hasVideo
    THEN s
    ELSE [s EXCEPT !.streamVideo.srcObject = a,
                   !.streamVideo.muted = FALSE,
                   !.att[a].monitor = "on",
                   !.att[a].lastBytes = 0,
                   !.att[a].lastPlayingState = FALSE]

\* A variant of the track listener that shows a fluent stream without hiding
\* the idle video.
onTrackLiveOnly(s, a, hasVideo) ==
  IF ~hasVideo
    THEN s
    ELSE LET s1 == [s EXCEPT !.streamVideo.srcObject = a,
                             !.streamVideo.muted = FALSE]
             s2 == IF s.att[a].fluentMode
                     THEN [s1 EXCEPT !.streamVideo.opacity = 1,
                                     !.isStreamReady = TRUE]
                     ELSE s1
         IN  [s2 EXCEPT !.att[a].monitor = "on",
                        !.att[a].lastBytes = 0,
                        !.att[a].lastPlayingState = FALSE]

\* The 'track' listener of transport a; it starts the statistics interval.
onTrack(s, a, hasVideo) ==
  IF ~hasVideo
    THEN s
    ELSE LET s1 == [s EXCEPT !.streamVideo.srcObject = a,
                             !.streamVideo.muted = FALSE]
             s2 == IF s.att[a].fluentMode
                     THEN [s1 EXCEPT !.streamVideo.opacity = 1,
                                     !.idleVideo.opacity = 0,
                                     !.isStreamReady = TRUE]
                     ELSE s1
         IN  [s2 EXCEPT !.att[a].monitor = "on",
                        !.att[a].lastBytes = 0,
                        !.att[a].lastPlayingState = FALSE]

\* A variant that takes a count that did not fall for a playing stream.
nowPlayingNotLess(bytesReceived, lastBytes) == bytesReceived >= lastBytes

\* "Is the stream playing" as the interval computes it from a sample.
nowPlayingOf(bytesReceived, lastBytes) == bytesReceived > lastBytes

\* The interval callback of transport a starts: it stops the interval on a
\* closed transport and otherwise awaits the receiver's getStats().
onStatsTick(s, a) ==
  IF s.att[a].conn = "closed"
    THEN [s EXCEPT !.att[a].monitor = "off"]
    ELSE [s EXCEPT !.att[a].sampling = TRUE]

\* getStats() of the tick of transport a settles and the callback resumes;
\* report says whether it resolved with an inbound video report.
onStatsReport(s, a, report) ==
  LET s0 == [s EXCEPT !.att[a].sampling = FALSE]
  IN  IF ~report
      THEN s0
      ELSE LET me == s.att[a]
               nowPlaying == nowPlayingOf(me.bytes, me.lastBytes)
               s1 == IF nowPlaying # me.lastPlayingState
                       THEN LET t1 == [s0 EXCEPT !.isStreamPlaying = nowPlaying]
                                t2 == IF ~me.fluentMode
                                        THEN updateVideoDisplay(t1, me.capFluent,
                                               me.capReady, a, nowPlaying)
                                        ELSE t1
                            IN  [t2 EXCEPT !.att[a].lastPlayingState = nowPlaying]
                       ELSE s0
           IN  [s1 EXCEPT !.att[a].lastBytes = me.bytes,
                          !.att[a].sampled = TRUE]

\* The 'connectionstatechange' listener of transport a, whose state is now st.
\* stopStream and closeConnection are those of the render connect() came from.
onConnectionStateChange(s, a, st) ==
  LET s0 == [s EXCEPT !.att[a].conn = st]
  IN  CASE st = "connecting" -> [s0 EXCEPT !.connectionStatus = "Connecting"]
        [] st = "connected" -> [s0 EXCEPT !.isStreamReady = TRUE,
                                          !.connectionStatus = "Connected",
                                          !.isConnected = TRUE]
        [] st = "disconnected" -> [s0 EXCEPT !.isConnected = FALSE]
        [] st \in {"failed", "closed"} ->
             closeConnection(stopStream(s0), s.att[a].capPC)
        [] OTHER -> s0

\* The states a transport moves through on its own.
ConnSteps == {<<"new", "connecting">>, <<"connecting", "connected">>,
              <<"connecting", "failed">>, <<"connected", "disconnected">>,
              <<"connected", "failed">>, <<"disconnected", "connected">>,
              <<"disconnected", "failed">>}

\* The 'icecandidate' listener of transport a: one POST, not awaited.
onIceCandidate(s, a) == [s EXCEPT !.att[a].nIce = @ + 1]

\* speak(message), from the latest render.  The POST goes through
\* fetchWithRetry, whose retries resend the same request.
speak(s, message) ==
  IF s.peerConnection = 0 \/ ~s.isStreamReady \/ ~s.apiConfig
       \/ s.streamId = 0 \/ s.sessionId = 0
    THEN s
    ELSE LET val == Trim(message)
         IN  IF val = <<>>
               THEN s
               ELSE [s EXCEPT !.speakPosts =
                        Append(@, [stream |-> s.streamId, input |-> val,
                                   session_id |-> s.sessionId])]

\* ------------------------------------------------------ useRealtimeGPT
Gpt == 1..MaxGptConnects

\* A connect() call of the bridge that has not been made yet.  by is 0 for a
\* call by the page and k for a call by the reconnect timer of socket k;
\* capConnected is the isConnected of the render the callback came from.
\* recording counts the recorders that record the call's microphone stream,
\* errors the onError calls of the call's catch block.
NoGpt == [pc |-> "idle", by |-> 0, capConnected |-> FALSE,
          mic |-> "none", ws |-> "none", opened |-> FALSE, code |-> 0,
          timer |-> "none", elapsed |-> 0, recording |-> 0, errors |-> 0]

NoAudio == [flushing |-> 0, reading |-> 0, sent |-> 0]

GCur == [isGPTConnected |-> isGPTConnected, isListening |-> isListening,
         wsRef |-> wsRef, streamRef |-> streamRef, apiKey |-> apiKey,
         mediaRecorderRef |-> mediaRecorderRef,
         currentResponse |-> currentResponse,
         lastResponse |-> lastResponse, audio |-> audio, gpt |-> gpt]

GSet(g) ==
  /\ isGPTConnected' = g.isGPTConnected
  /\ isListening' = g.isListening
  /\ wsRef' = g.wsRef
  /\ streamRef' = g.streamRef
  /\ apiKey' = g.apiKey
  /\ mediaRecorderRef' = g.mediaRecorderRef
  /\ currentResponse' = g.currentResponse
  /\ lastResponse' = g.lastResponse
  /\ audio' = g.audio
  /\ gpt' = g.gpt

\* wsRef.current?.readyState === WebSocket.OPEN
wsRefOpen(g) == g.wsRef # 0 /\ g.gpt[g.wsRef].ws = "OPEN"

\* connect() of the bridge, from a render whose isConnected was cap, up to
\* its first await (getUserMedia).
gptConnect(g, c, by, cap) ==
  IF cap \/ wsRefOpen(g)
    THEN [g EXCEPT !.gpt[c].pc = "done", !.gpt[c].by = by]
    ELSE [g EXCEPT !.gpt[c].pc = "mic", !.gpt[c].by = by,
                   !.gpt[c].capConnected = cap]

\* A variant of the resumed connect() that does not look the key up.
gptMicResultNoKeyCheck(g, c, granted) ==
  IF ~granted
    THEN [g EXCEPT !.gpt[c].pc = "done", !.gpt[c].errors = @ + 1]
    ELSE [g EXCEPT !.gpt[c].mic = "live", !.streamRef = c,
                   !.gpt[c].pc = "done",
                   !.gpt[c].ws = "CONNECTING", !.wsRef = c]

\* connect() resumed by getUserMedia: the stream is kept in streamRef, the
\* key is looked up, the socket is created and kept in wsRef.  A rejection
\* or a missing key ends in the catch block, which calls onError.
gptMicResult(g, c, granted) ==
  IF ~granted
    THEN [g EXCEPT !.gpt[c].pc = "done", !.gpt[c].errors = @ + 1]
    ELSE LET g1 == [g EXCEPT !.gpt[c].mic = "live", !.streamRef = c,
                             !.gpt[c].pc = "done"]
         IN  IF ~g.apiKey
               THEN [g1 EXCEPT !.gpt[c].errors = @ + 1]
               ELSE [g1 EXCEPT !.gpt[c].ws = "CONNECTING", !.wsRef = c]

\* ws.onopen of socket c.
gptOnOpen(g, c) ==
  [g EXCEPT !.gpt[c].ws = "OPEN", !.gpt[c].opened = TRUE,
            !.isGPTConnected = TRUE]

\* A variant of ws.onclose that leaves isListening as it is.
gptOnCloseKeepsListening(g, c, code) ==
  LET g1 == [g EXCEPT !.gpt[c].ws = "CLOSED", !.gpt[c].code = code,
                      !.isGPTConnected = FALSE]
  IN  IF code # NormalClosure
        THEN [g1 EXCEPT !.gpt[c].timer = "pending", !.gpt[c].elapsed = 0]
        ELSE g1

\* A variant of ws.onclose that schedules no reconnect for a socket that was
\* itself made by a reconnect.
gptOnCloseCapped(g, c, code) ==
  LET g1 == [g EXCEPT !.gpt[c].ws = "CLOSED", !.gpt[c].code = code,
                      !.isGPTConnected = FALSE, !.isListening = FALSE]
  IN  IF code # NormalClosure /\ g.gpt[c].by = 0
        THEN [g1 EXCEPT !.gpt[c].timer = "pending", !.gpt[c].elapsed = 0]
        ELSE g1

\* ws.onclose of socket c with the close event's code.
gptOnClose(g, c, code) ==
  LET g1 == [g EXCEPT !.gpt[c].ws = "CLOSED", !.gpt[c].code = code,
                      !.isGPTConnected = FALSE, !.isListening = FALSE]
  IN  IF code # NormalClosure
        THEN [g1 EXCEPT !.gpt[c].timer = "pending", !.gpt[c].elapsed = 0]
        ELSE g1

\* ws.onerror of socket c.
gptOnError(g, c) == [g EXCEPT !.isGPTConnected = FALSE]

\* The reconnect timer of socket c runs: `if (!isConnected) connect()` with
\* the isConnected and the connect of the render that socket's connect()
\* came from; n is the call it makes.
gptOnReconnectTimer(g, c, n) ==
  LET g1 == [g EXCEPT !.gpt[c].timer = "fired"]
  IN  IF ~g.gpt[c].capConnected
        THEN gptConnect(g1, n, c, g.gpt[c].capConnected)
        ELSE g1

\* ws.close(1000, ...) on socket c: the closing handshake starts, or the
\* connection attempt is abandoned.
wsClose(g, c) ==
  IF g.gpt[c].ws \in {"CONNECTING", "OPEN"}
    THEN [g EXCEPT !.gpt[c].ws = "CLOSING"]
    ELSE g

\* disconnect().
gptDisconnect(g) ==
  LET g0 == IF g.mediaRecorderRef # 0
              THEN [g EXCEPT !.gpt[g.mediaRecorderRef].recording =
                               IF @ > 0 THEN @ - 1 ELSE 0,
                             !.mediaRecorderRef = 0]
              ELSE g
      \* a recorder becomes inactive when the tracks of its stream end
      g1 == IF g0.streamRef # 0
              THEN [g0 EXCEPT !.gpt[g0.streamRef].mic = "stopped",
                              !.gpt[g0.streamRef].recording = 0,
                              !.streamRef = 0]
              ELSE g0
      g2 == IF g1.wsRef # 0
              THEN [wsClose(g1, g1.wsRef) EXCEPT !.wsRef = 0]
              ELSE g1
  IN  [g2 EXCEPT !.isGPTConnected = FALSE, !.isListening = FALSE]

\* handleRealtimeMessage on 'response.text.delta'.
gptOnTextDelta(g, delta) == [g EXCEPT !.currentResponse = Append(@, delta)]

\* handleRealtimeMessage on 'response.text.done': a buffer that is not blank
\* is handed to onTextReceived and emptied.
gptOnTextDone(g) ==
  IF Trim(g.currentResponse) # <<>>
    THEN [g EXCEPT !.lastResponse = g.currentResponse,
                   !.currentResponse = <<>>]
    ELSE g

\* startListening(), from the latest render.  send() throws on a socket that
\* is still connecting; the catch block reports the error.
gptStartListening(g) ==
  IF ~g.isGPTConnected \/ g.isListening \/ g.wsRef = 0 \/ g.streamRef = 0
    THEN g
    ELSE [g EXCEPT !.gpt[g.streamRef].recording = @ + 1,
                   !.mediaRecorderRef = g.streamRef,
                   !.isListening = TRUE]

\* stopListening(), from the latest render.  stop() ends the recording; the
\* recorder's last chunk is handed over in a 'dataavailable' event that fires
\* after stopListening() has returned.
gptStopListening(g) ==
  IF ~g.isListening \/ g.mediaRecorderRef = 0
    THEN g
    ELSE [g EXCEPT !.gpt[g.mediaRecorderRef].recording =
                     IF @ > 0 THEN @ - 1 ELSE 0,
                   !.audio.flushing =
                     IF g.gpt[g.mediaRecorderRef].recording > 0
                       THEN @ + 1 ELSE @,
                   !.mediaRecorderRef = 0,
                   !.isListening = FALSE]

\* A variant of ondataavailable that drops the last chunk of a stopped
\* recorder.
gptOnDataAvailableDropLast(g, last, nonEmpty) ==
  LET g1 == IF last THEN [g EXCEPT !.audio.flushing = @ - 1] ELSE g
  IN  IF nonEmpty /\ wsRefOpen(g) /\ ~last /\ g.isListening
        THEN [g1 EXCEPT !.audio.reading = @ + 1]
        ELSE g1

\* mediaRecorder.ondataavailable: a chunk that is not empty is read by a
\* FileReader if the socket in wsRef is open.  last says that the chunk is
\* the last one of a stopped recorder.
gptOnDataAvailable(g, last, nonEmpty) ==
  LET g1 == IF last THEN [g EXCEPT !.audio.flushing = @ - 1] ELSE g
  IN  IF nonEmpty /\ wsRefOpen(g)
        THEN [g1 EXCEPT !.audio.reading = @ + 1]
        ELSE g1

\* reader.onload: `wsRef.current?.send(append)`.  Only an open socket
\* transmits: send() throws on a connecting socket and discards the data on
\* a closing or closed one.
gptOnReaderLoad(g) ==
  LET g1 == [g EXCEPT !.audio.reading = @ - 1]
  IN  IF wsRefOpen(g)
        THEN [g1 EXCEPT !.audio.sent = @ + 1]
        ELSE g1

\* The close codes a socket in the given state can end with: only a socket
\* that was open can complete a closing handshake.
CloseCodes(c) ==
  IF gpt[c].ws = "CONNECTING" \/ (gpt[c].ws = "CLOSING" /\ ~gpt[c].opened)
    THEN {AbnormalClosure}
    ELSE {NormalClosure, AbnormalClosure}

\* The next connect() call of the bridge.
NextGpt(c) ==
  /\ gpt[c].pc = "idle"
  /\ \A b \in Gpt : b < c => gpt[b].pc # "idle"

\* The page calls the bridge's connect().
GptConnect ==
  \E c \in Gpt :
    /\ NextGpt(c)
    /\ GSet(gptConnect(GCur, c, 0, isGPTConnected))
    /\ UNCHANGED <<fetchVars, agentVars>>

GptMicResult ==
  \E c \in Gpt, granted \in BOOLEAN :
    /\ gpt[c].pc = "mic"
    /\ GSet(gptMicResult(GCur, c, granted))
    /\ UNCHANGED <<fetchVars, agentVars>>

GptSocketOpen ==
  \E c \in Gpt :
    /\ gpt[c].ws = "CONNECTING"
    /\ GSet(gptOnOpen(GCur, c))
    /\ UNCHANGED <<fetchVars, agentVars>>

\* The socket closes without an error event.
GptSocketClose ==
  \E c \in Gpt :
    /\ gpt[c].ws \in {"OPEN", "CLOSING"}
    /\ \E code \in CloseCodes(c) : GSet(gptOnClose(GCur, c, code))
    /\ UNCHANGED <<fetchVars, agentVars>>

\* The connection fails: the error event and then the close event.
GptSocketFail ==
  \E c \in Gpt :
    /\ gpt[c].ws \in {"CONNECTING", "OPEN", "CLOSING"}
    /\ GSet(gptOnClose(gptOnError(GCur, c), c, AbnormalClosure))
    /\ UNCHANGED <<fetchVars, agentVars>>

\* The time that passes in one step of the clock, in ms.
TickMs == ReconnectDelay \div ClockSteps

\* Time passes.
GptClock ==
  /\ \E c \in Gpt : gpt[c].timer = "pending" /\ gpt[c].elapsed < ReconnectDelay
  /\ gpt' = [c \in Gpt |->
               IF gpt[c].timer = "pending" /\ gpt[c].elapsed < ReconnectDelay
                 THEN [gpt[c] EXCEPT !.elapsed = @ + TickMs]
                 ELSE gpt[c]]
  /\ UNCHANGED <<isGPTConnected, isListening, wsRef, streamRef, apiKey,
                 mediaRecorderRef, currentResponse, lastResponse, audio>>
  /\ UNCHANGED <<fetchVars, agentVars>>

GptReconnectTimer ==
  \E c \in Gpt, n \in Gpt :
    /\ gpt[c].timer = "pending"
    /\ gpt[c].elapsed >= ReconnectDelay
    /\ NextGpt(n)
    /\ GSet(gptOnReconnectTimer(GCur, c, n))
    /\ UNCHANGED <<fetchVars, agentVars>>

\* The page, or the unmount effect, calls disconnect().
GptDisconnect ==
  /\ GSet(gptDisconnect(GCur))
  /\ UNCHANGED <<fetchVars, agentVars>>

\* The page's microphone button, when the bridge is not listening.
GptStartListening ==
  /\ SumTo([c \in Gpt |-> gpt[c].recording], MaxGptConnects) < MaxRecorders
  /\ GSet(gptStartListening(GCur))
  /\ UNCHANGED <<fetchVars, agentVars>>

\* The page's microphone button, when the bridge is listening.
GptStopListening ==
  /\ audio.flushing < MaxFlushes
  /\ GSet(gptStopListening(GCur))
  /\ UNCHANGED <<fetchVars, agentVars>>

\* A recorder hands over a chunk: one that is recording, every 100 ms, or
\* one that was stopped, for the last time.
GptDataAvailable ==
  \E last \in BOOLEAN, nonEmpty \in BOOLEAN :
    /\ IF last THEN audio.flushing > 0
               ELSE \E c \in Gpt : gpt[c].recording > 0
    /\ audio.reading < MaxReads
    /\ audio.sent < MaxAppends
    /\ GSet(gptOnDataAvailable(GCur, last, nonEmpty))
    /\ UNCHANGED <<fetchVars, agentVars>>

\* A FileReader has read its chunk.
GptReaderLoad ==
  /\ audio.reading > 0
  /\ GSet(gptOnReaderLoad(GCur))
  /\ UNCHANGED <<fetchVars, agentVars>>

\* A 'response.text.delta' message arrives on an open socket.
GptTextDelta ==
  \E c \in Gpt, delta \in Chars :
    /\ gpt[c].ws = "OPEN"
    /\ Len(currentResponse) < MaxBuf
    /\ GSet(gptOnTextDelta(GCur, delta))
    /\ UNCHANGED <<fetchVars, agentVars>>

\* A 'response.text.done' message arrives on an open socket.
GptTextDone ==
  \E c \in Gpt :
    /\ gpt[c].ws = "OPEN"
    /\ GSet(gptOnTextDone(GCur))
    /\ UNCHANGED <<fetchVars, agentVars>>

\* ------------------------------------------------------------- actions
\* The config effect's fetch of /api/config succeeds.
LoadApiConfig ==
  /\ ~apiConfig
  /\ apiConfig' = TRUE
  /\ UNCHANGED <<isStreamReady, isStreamPlaying, isFluent, peerConnection,
                 streamId, sessionId, connectionStatus, isConnected, agentName,
                 streamVideo, idleVideo, wrapperBg, att, speakPosts>>
  /\ UNCHANGED <<fetchVars, gptVars>>

\* The page calls connect().
Connect ==
  \E a \in Att :
    /\ a <= MaxConnects
    /\ att[a].cpc = "idle"
    /\ \A b \in Att : b < a => att[b].cpc # "idle"
    /\ Set(connect(Cur, a))
    /\ UNCHANGED <<fetchVars, gptVars>>

\* The button of the reconnect panel calls connect(); the panel is rendered
\* once the start overlay is gone and while the page is not connected.
Reconnect ==
  \E a \in Att :
    /\ a > 1
    /\ ~isConnected
    /\ att[a].cpc = "idle"
    /\ \A b \in Att : b < a => att[b].cpc # "idle"
    /\ Set(connect(Cur, a))
    /\ UNCHANGED <<fetchVars, gptVars>>

AgentResponse ==
  \E a \in Att, outcome \in Outcomes, presenter \in BOOLEAN :
    /\ att[a].cpc = "agent"
    /\ Set(agentResponse(Cur, a, outcome, presenter))
    /\ UNCHANGED <<fetchVars, gptVars>>

StreamResponse ==
  \E a \in Att, outcome \in Outcomes, fluent \in BOOLEAN :
    /\ att[a].cpc = "stream"
    /\ Set(streamResponse(Cur, a, outcome, fluent))
    /\ UNCHANGED <<fetchVars, gptVars>>

\* setRemoteDescription settles; it rejects on a transport closed meanwhile.
OfferResult ==
  \E a \in Att, ok \in BOOLEAN :
    /\ att[a].cpc = "offer"
    /\ ok => att[a].conn # "closed"
    /\ Set(offerResult(Cur, a, ok))
    /\ UNCHANGED <<fetchVars, gptVars>>

\* createAnswer and setLocalDescription settle.
AnswerResult ==
  \E a \in Att, ok \in BOOLEAN :
    /\ att[a].cpc = "answer"
    /\ ok => att[a].conn # "closed"
    /\ Set(answerResult(Cur, a, ok))
    /\ UNCHANGED <<fetchVars, gptVars>>

SdpResponse ==
  \E a \in Att, outcome \in Outcomes :
    /\ att[a].cpc = "sdp"
    /\ Set(sdpResponse(Cur, a, outcome))
    /\ UNCHANGED <<fetchVars, gptVars>>

\* The remote tracks arrive once the offer is applied.
Track ==
  \E a \in Att, hasVideo \in BOOLEAN :
    /\ att[a].cpc = "answer"
    /\ att[a].monitor = "none"
    /\ Cardinality({b \in Att : att[b].monitor # "none"}) < MaxTracks
    /\ Set(onTrack(Cur, a, hasVideo))
    /\ UNCHANGED <<fetchVars, gptVars>>

\* The 1000 ms interval of transport a fires; the previous tick has settled.
StatsTick ==
  \E a \in Att :
    /\ att[a].monitor = "on"
    /\ ~att[a].sampling
    /\ Set(onStatsTick(Cur, a))
    /\ UNCHANGED <<fetchVars, gptVars>>

\* The statistics requested by a tick arrive.
StatsReport ==
  \E a \in Att, report \in BOOLEAN :
    /\ att[a].sampling
    /\ Set(onStatsReport(Cur, a, report))
    /\ UNCHANGED <<fetchVars, gptVars>>

\* Media arrives on a connected transport.
ReceiveBytes ==
  \E a \in Att :
    /\ att[a].conn = "connected"
    /\ Sum([b \in Att |-> att[b].bytes]) < MaxBytes
    /\ att' = [att EXCEPT ![a].bytes = @ + 1]
    /\ UNCHANGED <<apiConfig, isStreamReady, isStreamPlaying, isFluent,
                   peerConnection, streamId, sessionId, connectionStatus,
                   isConnected, agentName, streamVideo, idleVideo, wrapperBg,
                   speakPosts>>
    /\ UNCHANGED <<fetchVars, gptVars>>

\* The transport changes state once its local description is set.
ConnectionStateChange ==
  \E a \in Att, st \in {"connecting", "connected", "disconnected", "failed"} :
    /\ att[a].cpc \in {"sdp", "done"}
    /\ att[a].nSdp > 0
    /\ <<att[a].conn, st>> \in ConnSteps
    /\ Set(onConnectionStateChange(Cur, a, st))
    /\ UNCHANGED <<fetchVars, gptVars>>

IceCandidate ==
  \E a \in Att :
    /\ att[a].cpc \in {"sdp", "done"}
    /\ att[a].nSdp > 0
    /\ att[a].conn \notin {"none", "closed"}
    /\ Sum([b \in Att |-> att[b].nIce]) < MaxIce
    /\ Set(onIceCandidate(Cur, a))
    /\ UNCHANGED <<fetchVars, gptVars>>

\* The page calls speak(message).
Speak ==
  \E message \in Texts :
    /\ Len(speakPosts) < MaxSpeaks
    /\ Set(speak(Cur, message))
    /\ UNCHANGED <<fetchVars, gptVars>>

\* fetchWithRetry is called on its own.
FetchCall ==
  /\ fRes = NoResult
  /\ fRes' = fetchWithRetry(fOuts, 1, fRetries)
  /\ UNCHANGED <<fOuts, fRetries>>
  /\ UNCHANGED <<agentVars, gptVars>>

\* ------------------------------------------------------ specifications
InitAgent ==
  /\ apiConfig = FALSE
  /\ isStreamReady = FALSE
  /\ isStreamPlaying = FALSE
  /\ isFluent = FALSE
  /\ peerConnection = 0
  /\ streamId = 0
  /\ sessionId = 0
  /\ connectionStatus = ""
  /\ isConnected = FALSE
  /\ agentName = 0
  /\ streamVideo = [opacity |-> 0, srcObject |-> 0, muted |-> FALSE]
  /\ idleVideo = [opacity |-> 1, src |-> 0]
  /\ wrapperBg = 0
  /\ att = [a \in Att |-> NoAtt]
  /\ speakPosts = <<>>

InitFetchIdle ==
  /\ fOuts = [i \in 1..(MaxRetries + 1) |-> "ok"]
  /\ fRetries = 0
  /\ fRes = NoResult

InitGpt ==
  /\ isGPTConnected = FALSE
  /\ isListening = FALSE
  /\ wsRef = 0
  /\ streamRef = 0
  /\ mediaRecorderRef = 0
  /\ currentResponse = <<>>
  /\ lastResponse = <<>>
  /\ audio = NoAudio
  /\ apiKey \in BOOLEAN
  /\ gpt = [c \in Gpt |-> NoGpt]

InitGptIdle ==
  /\ isGPTConnected = FALSE
  /\ isListening = FALSE
  /\ wsRef = 0
  /\ streamRef = 0
  /\ mediaRecorderRef = 0
  /\ currentResponse = <<>>
  /\ lastResponse = <<>>
  /\ audio = NoAudio
  /\ apiKey = TRUE
  /\ gpt = [c \in Gpt |-> NoGpt]

Init == InitAgent /\ InitFetchIdle /\ InitGptIdle

\* The session and its media: the handshake, the transport's events and the
\* statistics interval.
Next ==
  \/ LoadApiConfig
  \/ Connect
  \/ AgentResponse
  \/ StreamResponse
  \/ OfferResult
  \/ AnswerResult
  \/ SdpResponse
  \/ ConnectionStateChange
  \/ Track
  \/ StatsTick
  \/ StatsReport
  \/ ReceiveBytes

Spec == Init /\ [][Next]_vars

\* The session and the requests sent over it.  speak() and the icecandidate
\* listener read the session's state and write nothing but their requests,
\* and they read nothing the statistics interval writes, so they are checked
\* without the interval.
NextWire ==
  \/ LoadApiConfig
  \/ Connect
  \/ AgentResponse
  \/ StreamResponse
  \/ OfferResult
  \/ AnswerResult
  \/ SdpResponse
  \/ ConnectionStateChange
  \/ Track
  \/ IceCandidate
  \/ Speak

SpecWire == Init /\ [][NextWire]_vars

\* Repeated connects up to the construction of each call's transport.
NextTeardown ==
  \/ LoadApiConfig
  \/ Connect
  \/ Reconnect
  \/ AgentResponse
  \/ StreamResponse

SpecTeardown == Init /\ [][NextTeardown]_vars

\* The handshake and the transport's own state changes.  Every request and
\* every WebRTC call that connect() awaits settles; nothing makes the page
\* call connect() and nothing makes a transport change state.
NextLoss ==
  \/ LoadApiConfig
  \/ Connect
  \/ AgentResponse
  \/ StreamResponse
  \/ OfferResult
  \/ AnswerResult
  \/ SdpResponse
  \/ ConnectionStateChange

SpecLoss ==
  /\ Init
  /\ [][NextLoss]_vars
  /\ WF_vars(AgentResponse)
  /\ WF_vars(StreamResponse)
  /\ WF_vars(OfferResult)
  /\ WF_vars(AnswerResult)
  /\ WF_vars(SdpResponse)

\* fetchWithRetry with every retries value and every run of outcomes.
InitFetch ==
  /\ InitAgent
  /\ InitGptIdle
  /\ fRetries \in 0..MaxRetries
  /\ fOuts \in OutcomeSeqs(MaxRetries + 1)
  /\ fRes = NoResult

NextFetch == FetchCall

SpecFetch == InitFetch /\ [][NextFetch]_vars

\* The voice bridge.
InitBridge == InitAgent /\ InitFetchIdle /\ InitGpt

NextBridge ==
  \/ GptConnect
  \/ GptMicResult
  \/ GptSocketOpen
  \/ GptSocketClose
  \/ GptSocketFail
  \/ GptClock
  \/ GptReconnectTimer
  \/ GptDisconnect
  \/ GptStartListening
  \/ GptStopListening
  \/ GptTextDelta

SpecBridge == InitBridge /\ [][NextBridge]_vars

\* The messages of the bridge's sockets.
NextMessages ==
  \/ GptConnect
  \/ GptMicResult
  \/ GptSocketOpen
  \/ GptSocketClose
  \/ GptDisconnect
  \/ GptTextDelta
  \/ GptTextDone

SpecMessages == InitBridge /\ [][NextMessages]_vars

\* The recorders of the bridge and the audio they send.
NextAudio ==
  \/ GptConnect
  \/ GptMicResult
  \/ GptSocketOpen
  \/ GptSocketClose
  \/ GptStartListening
  \/ GptStopListening
  \/ GptDataAvailable
  \/ GptReaderLoad

SpecAudio == InitBridge /\ [][NextAudio]_vars

\* The sockets of the bridge and their reconnect timers.  Time passes and a
\* timer that is due runs: the event loop runs every timer callback.
NextReconnect ==
  \/ GptConnect
  \/ GptMicResult
  \/ GptSocketOpen
  \/ GptSocketClose
  \/ GptSocketFail
  \/ GptClock
  \/ GptReconnectTimer

SpecReconnect ==
  /\ InitBridge
  /\ [][NextReconnect]_vars
  /\ WF_vars(GptClock)
  /\ WF_vars(GptReconnectTimer)

\* -------------------------------------------------------------- claims
\* Every attempt the call is allowed fails (a non-2xx response or an error).
AllAttemptsFail == \A i \in 1..(fRetries + 1) : fOuts[i] # "ok"

\* C1: fetchWithRetry called with retry count N against an endpoint whose
\* every attempt fails issues exactly N+1 requests, and then hands the
\* failure to its caller (the last non-2xx response, or the last error).
C1_AllFailIssuesNPlusOne ==
  (fRes # NoResult /\ AllAttemptsFail) =>
     /\ fRes.requests = fRetries + 1
     /\ fRes.raised \/ fRes.kind = "bad"

\* A call with the largest N whose attempts mix responses and errors, after
\* all its N+1 requests.
C1_Witness ==
  /\ fRes # NoResult
  /\ AllAttemptsFail
  /\ fRetries = MaxRetries
  /\ fOuts[1] = "bad"
  /\ fOuts[2] = "throw"
  /\ fRes.requests = MaxRetries + 1

\* C2: the outcome of fetchWithRetry is the outcome of its last attempt: it
\* returns that attempt's response (2xx, or non-2xx when no retry is left)
\* and raises exactly when that attempt threw; no earlier attempt was a 2xx,
\* and a failure comes out only from attempt N+1.
C2_LastAttemptDecides ==
  fRes # NoResult =>
    LET k == fRes.requests
    IN  /\ k \in 1..(fRetries + 1)
        /\ fRes.at = k
        /\ fRes.kind = fOuts[k]
        /\ fRes.raised <=> (fOuts[k] = "throw")
        /\ \A i \in 1..(k - 1) : fOuts[i] # "ok"
        /\ fOuts[k] # "ok" => k = fRetries + 1

\* A call that raised the error of its last attempt after a non-2xx response.
C2_Witness ==
  /\ fRes # NoResult
  /\ fRes.raised
  /\ fRetries >= 1
  /\ fOuts[1] = "bad"
  /\ fRes.requests = fRetries + 1

\* A transport that exists and has neither failed nor been closed.
LiveTransport(a) ==
  att[a].conn \in {"new", "connecting", "connected", "disconnected"}

\* C3: at most one transport is live at any time, connect() having torn down
\* the previous one before it negotiates a new one.
C3_AtMostOneLiveTransport ==
  Cardinality({a \in Att : LiveTransport(a)}) <= 1

\* The track listener of transport a runs on a video track.
TrackHandled(a) == att[a].monitor = "none" /\ att'[a].monitor = "on"

\* C4: in a fluent session the step that handles a remote video track leaves
\* isStreamReady true, the live video at opacity 1 and the idle video at
\* opacity 0, whatever has been received and before any statistics sample.
C4_FluentTrackShowsStream ==
  [][\A a \in Att :
       (att[a].fluentMode /\ TrackHandled(a)) =>
          /\ isStreamReady'
          /\ streamVideo'.opacity = 1
          /\ idleVideo'.opacity = 0]_vars

\* A fluent session shown after its track, with no byte received and no
\* sample taken.
C4_Witness ==
  \E a \in Att :
    /\ att[a].fluentMode
    /\ att[a].monitor = "on"
    /\ ~att[a].sampled
    /\ att[a].bytes = 0
    /\ isStreamReady
    /\ streamVideo.opacity = 1
    /\ idleVideo.opacity = 0

\* The monitor of transport a reports the stream as playing.
ReportsPlaying(a) ==
  /\ att[a].monitor = "on"
  /\ ~att[a].lastPlayingState
  /\ att'[a].lastPlayingState

\* C5 as stated: in a non-fluent session the monitor reports the stream as
\* playing only at a sample that follows an earlier sample and whose
\* bytesReceived is greater than that earlier sample's; no other step, a
\* track arrival included, makes isStreamPlaying true.
C5_TwoSamplesNeeded ==
  [][/\ (~isStreamPlaying /\ isStreamPlaying') =>
           \E a \in Att : ReportsPlaying(a)
     /\ \A a \in Att :
          (~att[a].fluentMode /\ ReportsPlaying(a)) =>
             /\ att[a].sampled
             /\ att'[a].lastBytes > att[a].lastBytes]_vars

\* C5, amended: in a non-fluent session the monitor reports the stream as
\* playing only at a sample whose bytesReceived is greater than the value the
\* monitor holds from its previous sample, which is 0 before its first
\* sample; no other step, a track arrival included, makes isStreamPlaying
\* true.
C5_PlayingOnlyOnGrowth ==
  [][/\ (~isStreamPlaying /\ isStreamPlaying') =>
           \E a \in Att : ReportsPlaying(a)
     /\ \A a \in Att :
          (~att[a].fluentMode /\ ReportsPlaying(a)) =>
             /\ isStreamPlaying'
             /\ att'[a].sampled
             /\ att'[a].lastBytes = att[a].bytes
             /\ att'[a].lastBytes > att[a].lastBytes]_vars

\* A non-fluent session reported as playing by a sample that saw bytes.
C5_Witness ==
  /\ isStreamPlaying
  /\ \E a \in Att :
       /\ ~att[a].fluentMode
       /\ att[a].conn = "connected"
       /\ att[a].sampled
       /\ att[a].lastPlayingState
       /\ att[a].lastBytes > 0

\* A text of white space only.
Blank(m) == \A k \in 1..Len(m) : m[k] = " "

\* v is m without its leading and trailing white space.
IsTrimOf(v, m) ==
  \E i \in 1..(Len(m) + 1), j \in 0..Len(m) :
    /\ v = SubSeq(m, i, j)
    /\ \A k \in 1..(i - 1) : m[k] = " "
    /\ \A k \in (j + 1)..Len(m) : m[k] = " "
    /\ v # <<>> => (v[1] # " " /\ v[Len(v)] # " ")

\* C6: speak(text) issues no request and changes nothing when there is no
\* transport, when the stream is not ready, or when the text is empty or
\* white space; otherwise it issues one POST that carries the trimmed text
\* and the current session id, and changes nothing else.
C6_SpeakGuards ==
  \A m \in Texts :
    LET after == speak(Cur, m)
    IN  IF peerConnection = 0 \/ ~isStreamReady \/ Blank(m)
          THEN after = Cur
          ELSE /\ sessionId # 0
               /\ \E v \in Texts :
                    /\ IsTrimOf(v, m)
                    /\ after = [Cur EXCEPT !.speakPosts =
                                   Append(@, [stream |-> streamId, input |-> v,
                                              session_id |-> sessionId])]

\* speak() has sent a text on a ready session.
C6_Witness ==
  /\ speakPosts # <<>>
  /\ speakPosts[1].input = <<"a">>
  /\ speakPosts[1].session_id = sessionId
  /\ peerConnection # 0
  /\ isStreamReady

\* C7: a connect() whose agent-info request is answered with a non-2xx
\* status ends in "Connection failed" with the connection reported as down,
\* resolves, has sent that one GET only, and never sends a stream-creation
\* request or builds a transport.
C7_AgentInfoFailureStopsConnect ==
  /\ [](\A a \in Att :
          att[a].resAgent = "bad" =>
             /\ att[a].cpc = "done"
             /\ att[a].res = "failed"
             /\ att[a].nAgent = 1
             /\ ~att[a].streamTried
             /\ att[a].conn = "none"
             /\ att[a].nSdp = 0)
  /\ [][\A a \in Att :
          (att[a].resAgent = "none" /\ att'[a].resAgent = "bad") =>
             /\ connectionStatus' = "Connection failed"
             /\ isConnected' = FALSE]_vars

\* A connect() that ended on a non-2xx agent-info response.
C7_Witness ==
  \E a \in Att :
    /\ att[a].resAgent = "bad"
    /\ att[a].res = "failed"
    /\ connectionStatus = "Connection failed"
    /\ ~isConnected

\* C8: whenever a non-fluent session has a transport, or has sent an ICE
\* candidate, its idle video source and its wrapper background were set.
C8_IdleVisualsBeforeTransport ==
  \A a \in Att :
    /\ att[a].nIce > 0 => att[a].conn # "none"
    /\ (~att[a].fluentMode /\ att[a].conn # "none") =>
          /\ att[a].prepared
          /\ idleVideo.src # 0
          /\ wrapperBg # 0

\* A non-fluent session that has sent an ICE candidate.
C8_Witness ==
  \E a \in Att :
    /\ ~att[a].fluentMode
    /\ att[a].nIce > 0
    /\ att[a].prepared
    /\ idleVideo.src = a

\* C9: a socket that closes with a code other than 1000 gets one reconnect
\* timer and one that closes with 1000 gets none; the timer runs 3000 ms
\* after the closure; and the connect() it makes goes ahead only if the
\* bridge is not connected at that time.
C9_ReconnectOnlyWhenDisconnected ==
  [][\A c \in Gpt :
       /\ (gpt[c].ws # "CLOSED" /\ gpt'[c].ws = "CLOSED") =>
             /\ gpt[c].timer = "none"
             /\ (gpt'[c].timer = "pending") <=> (gpt'[c].code # NormalClosure)
             /\ gpt'[c].elapsed = 0
       /\ (gpt[c].timer = "pending" /\ gpt'[c].timer = "fired") =>
             /\ gpt[c].elapsed >= ReconnectDelay
             /\ \A n \in Gpt :
                  (gpt[n].pc = "idle" /\ gpt'[n].pc = "mic") => ~isGPTConnected
       /\ gpt[c].timer = "fired" => gpt'[c].timer = "fired"]_vars

\* C10: a connect() made while the transport is connected changes nothing:
\* no request, no state change, no notification to the page.
C10_ConnectWhileConnectedIsNoOp ==
  [][\A a \in Att :
       (/\ att[a].cpc = "idle"
        /\ att'[a].cpc # "idle"
        /\ peerConnection # 0
        /\ att[peerConnection].conn = "connected") =>
          /\ att'[a].nAgent = 0
          /\ \A b \in Att \ {a} : att'[b] = att[b]
          /\ UNCHANGED <<isStreamReady, isStreamPlaying, isFluent,
                         peerConnection, streamId, sessionId, connectionStatus,
                         isConnected, agentName, streamVideo, idleVideo,
                         wrapperBg, speakPosts>>]_vars

\* The places where connect() waits inside its try block.
HandshakeSteps == {"agent", "stream", "offer", "answer", "sdp"}

C12_Non2xxIsFatal ==
  [][\A a \in Att :
       (\/ (att[a].resStream = "none" /\ att'[a].resStream = "bad")
        \/ (att[a].resSdp = "none" /\ att'[a].resSdp = "bad")) =>
          /\ att'[a].res = "failed"
          /\ connectionStatus' = "Connection failed"
          /\ isConnected' = FALSE]_vars

\* C13: disconnect(), from any state, leaves no socket, microphone stream or
\* recorder held, has closed the socket it held with code 1000, leaves
\* isConnected and isListening false and the pending response buffer empty;
\* a second disconnect() changes nothing.
C13_DisconnectResetsAll ==
  LET after == gptDisconnect(GCur)
  IN  /\ after.wsRef = 0
      /\ after.streamRef = 0
      /\ after.mediaRecorderRef = 0
      /\ wsRef # 0 => after.gpt[wsRef].ws \in {"CLOSING", "CLOSED"}
      /\ streamRef # 0 => after.gpt[streamRef].mic = "stopped"
      /\ ~after.isGPTConnected
      /\ ~after.isListening
      /\ after.currentResponse = <<>>
      /\ gptDisconnect(after) = after

\* C14: a connect() that passes its guards leaves, before its first request
\* is answered, isStreamReady and isStreamPlaying false, the live video at
\* opacity 0 and the idle video at opacity 1.
C14_ConnectResetsPresentation ==
  [][\A a \in Att :
       (att[a].cpc = "idle" /\ att'[a].cpc = "agent") =>
          /\ ~isStreamReady'
          /\ ~isStreamPlaying'
          /\ streamVideo'.opacity = 0
          /\ idleVideo'.opacity = 1]_vars

\* connect() call b has passed its guards and done its teardown.
TornDownBy(b) ==
  att[b].cpc # "idle" /\ att[b].res \notin {"noconfig", "guard"}

\* C15: once a later connect() has done its teardown, a network response
\* that resumes an earlier connect() changes none of streamId, sessionId,
\* isFluent, peerConnection, the video surfaces and the reported status.
C15_SupersededResponsesIgnored ==
  [][\A a \in Att, b \in Att :
       (/\ a < b
        /\ TornDownBy(b)
        /\ att[a].cpc \in {"agent", "stream", "sdp"}
        /\ att'[a].cpc # att[a].cpc) =>
          UNCHANGED <<streamId, sessionId, isFluent, peerConnection,
                      streamVideo, idleVideo, wrapperBg, connectionStatus>>]_vars

\* C16: the step in which a transport's connection state becomes 'failed'
\* stops the tracks of the stream on the live video and detaches it, and
\* leaves peerConnection null and isStreamReady and isStreamPlaying false.
C16_FailedTransportTornDown ==
  [][\A a \in Att :
       (att[a].conn # "failed" /\ att'[a].conn = "failed") =>
          /\ streamVideo'.srcObject = 0
          /\ streamVideo.srcObject # 0 => att'[streamVideo.srcObject].stopped
          /\ peerConnection' = 0
          /\ ~isStreamReady'
          /\ ~isStreamPlaying']_vars

\* C17: within one connect() the agent-info GET and each ICE candidate push
\* are sent once, and the stream-creation POST and the SDP answer POST are
\* each given up only after retries + 1 = 4 failed requests.
C17_RetryPolicy ==
  [][\A a \in Att :
       /\ att'[a].nAgent <= 1
       /\ att'[a].nIce \in {att[a].nIce, att[a].nIce + 1}
       /\ (att[a].cpc = "agent" /\ att'[a].cpc = "stream") =>
             att'[a].retries = DefaultRetries
       /\ (att[a].cpc = "stream" /\ att'[a].resStream \in {"bad", "throw"}) =>
             att[a].retries = 0
       /\ (att[a].cpc = "sdp" /\ att'[a].resSdp \in {"bad", "throw"}) =>
             att'[a].nSdp = DefaultRetries + 1]_vars

\* C18: within one connect() the stream-creation request is sent only after
\* a 2xx agent-info response, the transport is built only after the 2xx
\* stream-creation response, and the SDP answer POST is sent only by the
\* step that follows the local answer, which follows the remote offer.
C18_HandshakeInOrder ==
  /\ [](\A a \in Att :
          /\ att[a].streamTried => (att[a].resAgent = "ok" /\ att[a].nAgent = 1)
          /\ att[a].conn # "none" =>
                (att[a].resStream = "ok" /\ att[a].retries = 0)
          /\ att[a].nSdp > 0 =>
                (att[a].conn # "none" /\ att[a].cpc \in {"sdp", "done"}))
  /\ [][\A a \in Att :
          /\ (~att[a].streamTried /\ att'[a].streamTried) => att[a].cpc = "agent"
          /\ (att[a].conn = "none" /\ att'[a].conn # "none") =>
                att[a].cpc = "stream"
          /\ att'[a].cpc = "answer" => att[a].cpc \in {"offer", "answer"}
          /\ (att[a].nSdp = 0 /\ att'[a].nSdp > 0) => att[a].cpc = "answer"]_vars

\* A connect() that went through all its steps.
C18_Witness ==
  \E a \in Att :
    /\ att[a].res = "ok"
    /\ att[a].resAgent = "ok"
    /\ att[a].resStream = "ok"
    /\ att[a].resSdp = "ok"
    /\ att[a].nSdp = 1
    /\ att[a].conn = "connected"

\* The monitor of transport a notifies a change of its playing state.
PlayingNotified(a) ==
  att[a].monitor = "on" /\ att'[a].lastPlayingState # att[a].lastPlayingState

\* C19: isFluent is the fluent flag of the session's own stream-creation
\* response, and every display decision of the session's monitor is the one
\* updateVideoDisplay takes for that flag: none in a fluent session, the
\* non-fluent one in a non-fluent session, whatever mode came before.
C19_ModeIsTheSessionsOwn ==
  [][\A a \in Att :
       /\ (att[a].cpc = "stream" /\ att'[a].resStream = "ok") =>
             isFluent' = att'[a].fluentMode
       /\ PlayingNotified(a) =>
             LET shown == updateVideoDisplay(Cur, att[a].fluentMode,
                            att[a].capReady, a, att'[a].lastPlayingState)
             IN  IF att[a].fluentMode
                   THEN UNCHANGED <<streamVideo, idleVideo>>
                   ELSE /\ streamVideo' = shown.streamVideo
                        /\ idleVideo' = shown.idleVideo]_vars

\* C20: in a non-fluent session, after each playing-state notification of the
\* monitor the live video's opacity is 1 if the notified flag and
\* isStreamReady are both true and 0 otherwise, and the idle video's opacity
\* is the complement.
C20_NonFluentOpacityFollowsPlaying ==
  [][\A a \in Att :
       (~att[a].fluentMode /\ PlayingNotified(a)) =>
          LET streamOpacity ==
                IF att'[a].lastPlayingState /\ isStreamReady THEN 1 ELSE 0
          IN  /\ streamVideo'.opacity = streamOpacity
              /\ idleVideo'.opacity = 1 - streamOpacity]_vars

\* C21: in every reachable state one of the two videos has opacity 1 and the
\* other opacity 0.
C21_OpacitiesComplementary ==
  /\ streamVideo.opacity \in {0, 1}
  /\ idleVideo.opacity = 1 - streamVideo.opacity

\* The live video shown, after a track event and a teardown by a reconnect.
C21_Witness ==
  /\ streamVideo.opacity = 1
  /\ idleVideo.opacity = 0
  /\ \E a \in Att : att[a].monitor # "none" /\ att[a].conn = "closed"

\* C22: a fluent session has no statistics interval, and no sample of its
\* byte counts has been taken or has changed the playing state.
C22_NoMonitorInFluentSession ==
  \A a \in Att :
    att[a].fluentMode =>
      /\ att[a].monitor = "none"
      /\ ~att[a].sampled
      /\ ~att[a].lastPlayingState

\* C23: on a closed transport the interval's tick starts no sample, and no
\* change of the playing state is notified for it.
C23_NoSamplingAfterClosure ==
  [][\A a \in Att :
       att[a].conn = "closed" =>
         /\ att'[a].sampling => att[a].sampling
         /\ att'[a].lastPlayingState = att[a].lastPlayingState
         /\ att'[a].lastBytes = att[a].lastBytes]_vars

\* C24: a connect() that passes its guards closes every transport that exists
\* and is still live when it is called.
C24_CleanupClosesEarlierTransport ==
  [][\A a \in Att :
       (att[a].cpc = "idle" /\ att'[a].cpc = "agent") =>
         \A b \in Att : LiveTransport(b) => att'[b].conn = "closed"]_vars

\* C25: whatever the buffer holds, a 'response.text.done' message hands the
\* whole buffer, that is the deltas received since the buffer was last
\* emptied, to the caller and leaves the buffer empty.
C25_DoneFlushesBuffer ==
  LET after == gptOnTextDone(GCur)
  IN  /\ after.currentResponse = <<>>
      /\ currentResponse # <<>> => after.lastResponse = currentResponse

\* A microphone stream of the bridge whose tracks have not been stopped.
MicUnreleased(c) == gpt[c].mic = "live"

\* A socket of the bridge that is connecting or open.
SocketLive(c) == gpt[c].ws \in {"CONNECTING", "OPEN"}

\* C26: at most one microphone stream of the bridge is unreleased, and every
\* unreleased stream and every live socket is the one its ref holds, so that
\* disconnect() can release it.
C26_BridgeReleasesResources ==
  /\ Cardinality({c \in Gpt : MicUnreleased(c)}) <= 1
  /\ \A c \in Gpt : MicUnreleased(c) => streamRef = c
  /\ \A c \in Gpt : SocketLive(c) => wsRef = c

\* The connect() call c of the bridge ends in its catch block.
AcquisitionFails(c) ==
  /\ gpt[c].pc = "mic"
  /\ gpt'[c].pc = "done"
  /\ gpt'[c].mic = "none" \/ ~apiKey

\* C27: a connect() of the bridge that is denied the microphone or finds no
\* key calls onError once, creates no socket, leaves isConnected as it was,
\* schedules no timer and starts no other call.
C27_AcquisitionFailureIsFatal ==
  [][\A c \in Gpt :
       AcquisitionFails(c) =>
         /\ gpt'[c].errors = 1
         /\ gpt'[c].ws = "none"
         /\ wsRef' = wsRef
         /\ isGPTConnected' = isGPTConnected
         /\ \A k \in Gpt : /\ gpt'[k].timer = gpt[k].timer
                            /\ k # c => gpt'[k].pc = gpt[k].pc]_vars

\* Both failures have happened: a call without a microphone stream and a call
\* that got one and found no key.
C27_Witness ==
  /\ ~apiKey
  /\ ~isGPTConnected
  /\ \E c \in Gpt : gpt[c].errors = 1 /\ gpt[c].mic = "none"
  /\ \E c \in Gpt : gpt[c].errors = 1 /\ gpt[c].mic = "live"

\* C29: while wsRef is null after a socket has existed, that is after a
\* disconnect(), a connect() made by a reconnect timer creates a socket only
\* if the page has called connect() since that timer's socket was made.
C29_NoReconnectAfterDisconnect ==
  [][\A n \in Gpt :
       (/\ gpt[n].ws = "none"
        /\ gpt'[n].ws = "CONNECTING"
        /\ gpt[n].by # 0
        /\ wsRef = 0)
       => \E p \in Gpt : p > gpt[n].by /\ gpt[p].pc # "idle" /\ gpt[p].by = 0]_vars

\* C30: at most one socket of the bridge is connecting or open.
C30_AtMostOneLiveSocket ==
  Cardinality({c \in Gpt : SocketLive(c)}) <= 1

\* Socket c closes with a code other than 1000.
ClosesAbnormally(c) ==
  /\ gpt[c].ws # "CLOSED"
  /\ gpt'[c].ws = "CLOSED"
  /\ gpt'[c].code # NormalClosure

\* The reconnect timer of socket c runs.
TimerRuns(c) == gpt[c].timer = "pending" /\ gpt'[c].timer = "fired"

\* A connect() call of the bridge is still left in this run.
CallLeft == \E n \in Gpt : gpt[n].pc = "idle"

\* C28: every abnormal closure, whichever call made the socket, schedules a
\* reconnect timer; the timer runs, not before ReconnectDelay has passed
\* since the closure, and calls connect(), which goes on to acquire the
\* microphone unless the socket in wsRef is open.
C28_ReconnectsWithoutCap ==
  /\ [][\A c \in Gpt :
          /\ ClosesAbnormally(c) =>
                gpt'[c].timer = "pending" /\ gpt'[c].elapsed = 0
          /\ TimerRuns(c) =>
                /\ gpt[c].elapsed >= ReconnectDelay
                /\ \E n \in Gpt :
                      /\ gpt[n].pc = "idle"
                      /\ gpt'[n].by = c
                      /\ gpt'[n].pc = IF wsRefOpen(GCur) THEN "done" ELSE "mic"]_vars
  /\ \A c \in Gpt :
        (gpt[c].timer = "pending" /\ CallLeft)
          ~> (gpt[c].timer = "fired" \/ ~CallLeft)

\* The second reconnect in a row: the socket made by the first reconnect
\* closed abnormally, and its timer has called connect().
C28_Witness ==
  \E c, d, n \in Gpt :
    /\ gpt[c].by = 0 /\ gpt[c].timer = "fired"
    /\ gpt[d].by = c /\ gpt[d].code = AbnormalClosure /\ gpt[d].timer = "fired"
    /\ gpt[n].by = d /\ gpt[n].pc = "mic"

\* C31: an 'input_audio_buffer.append' message is sent only while isListening
\* is true.
C31_AppendOnlyWhileListening ==
  [][audio'.sent > audio.sent => isListening]_vars

\* C32: in every reachable state of the bridge, isListening implies
\* isConnected.
C32_ListeningImpliesConnected == isListening => isGPTConnected

\* A socket closed while the bridge was listening: the recorder is still in
\* its ref, and the bridge is neither listening nor connected.
C32_Witness ==
  /\ ~isListening
  /\ ~isGPTConnected
  /\ mediaRecorderRef # 0
  /\ \E c \in Gpt : gpt[c].ws = "CLOSED"

\* C33: when connect() fails after it has constructed its transport (the
\* offer, the answer or the answer POST raises), that transport is not left
\* open and peerConnection is null.
C33_FailedAttemptLeavesNothing ==
  [][\A a \in Att :
       (/\ att[a].cpc \in {"offer", "answer", "sdp"}
        /\ att'[a].cpc = "done"
        /\ att'[a].res = "failed") =>
          /\ ~LiveTransport(a)'
          /\ peerConnection' = 0]_vars

\* Call a is the only connect() made so far.
OnlyCall(a) == \A b \in Att : b # a => att[b].cpc = "idle"

\* C34: when the transport of the only connect() made so far has failed
\* while the page is told it is connected, the page is eventually told that
\* it is not, unless it calls connect() first.
C34_LossIsNotified ==
  \A a \in Att :
    (OnlyCall(a) /\ att[a].conn = "failed" /\ isConnected)
      ~> (~isConnected \/ ~OnlyCall(a))

====
